---- MODULE Spec2Model ----
(***************************************************************************)
(* Dossier Immo Pro: the rate service (TauxService) and the scoring        *)
(* service (LoanScoringService) of src/main.py.                            *)
(*                                                                         *)
(* Money is counted in euro cents (integers).  A Python float that is a    *)
(* rate or a compound factor is a fixed-point number with Unit = 10^8      *)
(* for 1.0.  A percentage of an amount is computed on the integers; the    *)
(* amounts the model draws are such that the result is exact.              *)
(***************************************************************************)
EXTENDS Integers, Sequences, FiniteSets, TLC

VARIABLES
    taux_storage,   \* the module global taux_storage (main.py:76)
    job,            \* the update_monthly_rates coroutines: where each one is,
                    \* and how the request of its last run ended
    now,            \* the wall clock read by datetime.now()
    uuids,          \* the number of uuid4 values drawn so far
    request,        \* the LoanApplication handed to evaluate_application
    scoring,        \* what the last evaluate_application call returned
    call,           \* a direct call of one static method: its name and arguments
    ret,            \* what that call returned
    applications_store, \* the module global applications_store (main.py:88)
    stripe_intents, \* the payment intents Stripe holds, by identifier
    response        \* the last HTTP response of an /api endpoint

\* the state of the payment and dossier endpoints
web == <<applications_store, stripe_intents, response>>

vars == <<taux_storage, job, now, uuids, request, scoring, call, ret,
          applications_store, stripe_intents, response>>

----------------------------------------------------------------------------
(* Bounds of the model *)

MaxClock == 2          \* the clock runs over 0..MaxClock
MaxEvaluations == 2    \* evaluate_application calls per behaviour
MaxChildren == 1       \* children drawn from {0, 2 * k : k <= MaxChildren}
MaxExperience == 4     \* years_experience drawn from 0..MaxExperience
MaxLoans == 2          \* consumer loans declared in a direct call
MaxIntents == 1        \* payment intents created per behaviour

----------------------------------------------------------------------------
(* Python values *)

None == <<>>
Some(x) == <<x>>

Returned(v) == [raised |-> "none", value |-> v]
Raised(e) == [raised |-> e, value |-> 0]
NotCalled == [raised |-> "not_called", value |-> 0]

Euro(x) == x * 100

----------------------------------------------------------------------------
(* Float arithmetic, in fixed point *)

Unit == 10^8
Half == 10^4

Abs(x) == IF x < 0 THEN -x ELSE x
Sign(x) == IF x < 0 THEN -1 ELSE 1

\* floor(a * b / Unit) for a, b >= 0, without leaving 32 bits
FixMul(a, b) ==
    LET a1 == a \div Half
        a0 == a % Half
        b1 == b \div Half
        b0 == b % Half
    IN  a1 * b1 + ((a1 * b0 + a0 * b1 + ((a0 * b0) \div Half)) \div Half)

\* floor(a * Unit / d) for a >= 0, d > 0, by long division
RECURSIVE FixDivStep(_, _, _, _)
FixDivStep(q, r, d, k) ==
    IF k = 0 THEN q
    ELSE FixDivStep(q * 10 + ((r * 10) \div d), (r * 10) % d, d, k - 1)

FixDiv(a, d) == FixDivStep(a \div d, a % d, d, 8)

\* base ** n
RECURSIVE FixPow(_, _)
FixPow(base, n) ==
    IF n = 0 THEN Unit
    ELSE LET h == FixPow(base, n \div 2)
             sq == FixMul(h, h)
         IN  IF n % 2 = 0 THEN sq ELSE FixMul(sq, base)

\* str(n) for n >= 0
Digit == <<"0", "1", "2", "3", "4", "5", "6", "7", "8", "9">>

RECURSIVE str(_)
str(n) == IF n < 10 THEN Digit[n + 1] ELSE str(n \div 10) \o Digit[(n % 10) + 1]

\* f"{x:.0f}" of an amount in cents: the euros, rounded half to even
Format0f(cents) ==
    LET q == cents \div 100
        r == cents % 100
    IN  IF r > 50 \/ (r = 50 /\ q % 2 = 1) THEN q + 1 ELSE q

----------------------------------------------------------------------------
(* TauxService *)

\* the rate table written at lines 78-84, 167-173 and 188-191: the same figures
DefaultTaux ==
    ("10" :> 2850000) @@ ("15" :> 3030000) @@ ("20" :> 3160000) @@
    ("25" :> 3260000) @@ ("30" :> 3400000)

FallbackRate == 3500000

Snapshot(date_maj, taux, source) ==
    [date_maj |-> date_maj, taux |-> taux, source |-> source]

\* taux_storage as the module is loaded
InitialStorage == Snapshot(0, DefaultTaux, "seloger.com")

\* what `await client.get(url)` can end with
FetchOutcomes == {"200", "503", "network_error"}

ScrapeFailureKeepsSource(outcome) ==
    Snapshot(now, DefaultTaux, "seloger.com")

\* the part of scrape_seloger_rates that runs once the request has ended
scrape_seloger_rates(outcome) ==
    IF outcome = "200"
    THEN Snapshot(now, DefaultTaux, "seloger.com")
    ELSE Snapshot(now, DefaultTaux, "fallback")

\* the table looked up with the int: never a key of it
GetRateIntKey(duration) == FallbackRate

get_current_rate(duration) ==
    IF "taux" \in DOMAIN taux_storage
    THEN IF str(duration) \in DOMAIN taux_storage.taux
         THEN taux_storage.taux[str(duration)]
         ELSE FallbackRate
    ELSE FallbackRate

GetTauxInfoStale == InitialStorage

get_taux_info == taux_storage

----------------------------------------------------------------------------
(* LoanScoringService *)

calculate_notary_fees(price, property_type) ==
    IF property_type = "neuf"
    THEN (price * 3) \div 100
    ELSE (price * 8) \div 100

get_current_interest_rate(loan_duration) == get_current_rate(loan_duration)

\* rate is None or Some(r); the result is Returned(cents) or Raised(error)
calculate_monthly_payment(amount, duration_years, rate) ==
    LET r == IF rate = None
             THEN get_current_interest_rate(duration_years)
             ELSE rate[1]
        monthly_rate == r \div 12
        n_payments == duration_years * 12
    IN  IF monthly_rate = 0
        THEN IF n_payments = 0
             THEN Raised("ZeroDivisionError")
             ELSE Returned(Sign(amount) * (Abs(amount) \div n_payments))
        ELSE LET growth == FixPow(Unit + monthly_rate, n_payments)
             IN  IF growth - Unit = 0
                 THEN Raised("ZeroDivisionError")
                 ELSE Returned(Sign(amount) *
                        FixMul(Abs(amount),
                               FixDiv(FixMul(monthly_rate, growth),
                                      growth - Unit)))

EligibleIncomeNoTrial(employment) ==
    IF employment.status = "cdi"
    THEN employment.net_monthly_income
    ELSE IF employment.status = "cdd"
         THEN IF employment.years_experience >= 3
              THEN (employment.net_monthly_income * 7) \div 10
              ELSE 0
         ELSE 0

calculate_eligible_income(employment) ==
    LET base_income == employment.net_monthly_income
    IN  IF employment.status = "cdi"
        THEN IF employment.trial_period THEN 0 ELSE base_income
        ELSE IF employment.status = "cdd"
             THEN IF employment.years_experience >= 3
                  THEN (base_income * 7) \div 10
                  ELSE 0
             ELSE 0

\* loan.get('monthly_payment', 0)
LoanPayment(loan) ==
    IF "monthly_payment" \in DOMAIN loan THEN loan.monthly_payment ELSE 0

RECURSIVE SumLoans(_)
SumLoans(loans) ==
    IF loans = <<>> THEN 0
    ELSE LoanPayment(Head(loans)) + SumLoans(Tail(loans))

CurrentChargesOwnerAlways(housing, financial) ==
    (IF housing.current_status = "proprietaire"
     THEN housing.current_mortgage ELSE 0)
    + SumLoans(financial.consumer_loans)

calculate_current_charges(housing, financial) ==
    (IF housing.current_status = "locataire"
     THEN 0
     ELSE IF housing.current_status = "proprietaire"
             /\ housing.changing_main_residence
          THEN housing.current_mortgage
          ELSE 0)
    + SumLoans(financial.consumer_loans)

calculate_total_eligible_income(household, financial) ==
    LET main_income == calculate_eligible_income(household.main_borrower.employment)
        co_income == IF household.co_borrower # None
                     THEN calculate_eligible_income(household.co_borrower[1].employment)
                     ELSE 0
        rental_income_eligible == (financial.rental_income * 7) \div 10
    IN  main_income + co_income + rental_income_eligible + financial.other_income

\* one entry of criteria_details: the key, the mark of the verdict string
\* (TRUE for the check mark, FALSE for the cross) and the figure printed in it
Verdict(name, ok, figure) == [name |-> name, ok |-> ok, figure |-> figure]

\* one recommendation string: its fixed text and the figure printed in it
Recommendation(text, figure) == [text |-> text, figure |-> figure]

\* f"{debt_ratio:.1%}": the ratio num/den in tenths of a percent
FormatPercent1(num, den) == (num * 2000 + den) \div (2 * den)

StatusOfExclusive(score) ==
    IF score > 80 THEN "favorable"
    ELSE IF score > 50 THEN "moyen"
    ELSE "difficile"

\* lines 373-379
StatusOf(score) ==
    IF score >= 80 THEN "favorable"
    ELSE IF score >= 50 THEN "moyen"
    ELSE "difficile"

DebtRatioZeroDefault(total_charges, total_income) ==
    IF total_income > 0
    THEN [num |-> total_charges, den |-> total_income]
    ELSE [num |-> 0, den |-> 1]

\* line 347: the ratio as a fraction num/den, den > 0
DebtRatio(total_charges, total_income) ==
    IF total_income > 0
    THEN [num |-> total_charges, den |-> total_income]
    ELSE [num |-> 1, den |-> 1]

\* the weights added to the score at lines 331, 340, 350, 359 and 368
WeightApport == 30
WeightRevenus == 20
WeightEndettement == 30
WeightResteVivre == 10
WeightAge == 10

ScoreAgeUnconditional(ok_apport, ok_revenus, ok_endettement, ok_reste, ok_age) ==
    (IF ok_apport THEN WeightApport ELSE 0)
    + (IF ok_revenus THEN WeightRevenus ELSE 0)
    + (IF ok_endettement THEN WeightEndettement ELSE 0)
    + (IF ok_reste THEN WeightResteVivre ELSE 0)
    + WeightAge

\* score = 0 and the five `score += weight` of the passing branches
Score(ok_apport, ok_revenus, ok_endettement, ok_reste, ok_age) ==
    (IF ok_apport THEN WeightApport ELSE 0)
    + (IF ok_revenus THEN WeightRevenus ELSE 0)
    + (IF ok_endettement THEN WeightEndettement ELSE 0)
    + (IF ok_reste THEN WeightResteVivre ELSE 0)
    + (IF ok_age THEN WeightAge ELSE 0)

RecommendationsInsertFirst(ok_apport, ok_revenus, ok_endettement, ok_reste, ok_age, min_contribution, min_remaining) ==
    (IF ok_age THEN <<>>
     ELSE <<Recommendation("Reduisez la duree du pret", 0)>>)
    \o (IF ok_reste THEN <<>>
        ELSE <<Recommendation("Assurez-vous d'avoir un reste a vivre",
                              Format0f(min_remaining))>>)
    \o (IF ok_endettement THEN <<>>
        ELSE <<Recommendation("Reduisez vos charges ou augmentez vos revenus", 0)>>)
    \o (IF ok_revenus THEN <<>>
        ELSE <<Recommendation("Obtenez un CDI ou justifiez 3 ans d'anciennete en CDD", 0)>>)
    \o (IF ok_apport THEN <<>>
        ELSE <<Recommendation("Augmentez votre apport",
                              Format0f(min_contribution))>>)

\* recommendations = [] and the `recommendations.append(...)` of the five
\* failing branches, in the order they run
Recommendations(ok_apport, ok_revenus, ok_endettement, ok_reste, ok_age, min_contribution, min_remaining) ==
    (IF ok_apport THEN <<>>
     ELSE <<Recommendation("Augmentez votre apport",
                           Format0f(min_contribution))>>)
    \o (IF ok_revenus THEN <<>>
        ELSE <<Recommendation("Obtenez un CDI ou justifiez 3 ans d'anciennete en CDD", 0)>>)
    \o (IF ok_endettement THEN <<>>
        ELSE <<Recommendation("Reduisez vos charges ou augmentez vos revenus", 0)>>)
    \o (IF ok_reste THEN <<>>
        ELSE <<Recommendation("Assurez-vous d'avoir un reste a vivre",
                              Format0f(min_remaining))>>)
    \o (IF ok_age THEN <<>>
        ELSE <<Recommendation("Reduisez la duree du pret", 0)>>)

\* the body of evaluate_application once the monthly payment is known
ScoreApplication(application, application_id, total_budget, total_income, current_rate, monthly_payment) ==
    LET current_charges ==
            calculate_current_charges(application.housing, application.financial)
        household_size ==
            application.household.borrowers_count + application.household.children
        min_remaining == household_size * Euro(750)
        \* apport
        min_contribution == total_budget \div 10
        ok_apport == application.project.personal_contribution >= min_contribution
        \* revenus
        main_income ==
            calculate_eligible_income(application.household.main_borrower.employment)
        ok_revenus == main_income > 0
        \* endettement
        total_charges == monthly_payment + current_charges
        debt_ratio == DebtRatio(total_charges, total_income)
        ok_endettement == debt_ratio.num * 100 <= 33 * debt_ratio.den
        \* reste a vivre
        remaining == total_income - total_charges
        ok_reste == remaining >= min_remaining
        \* age
        loan_end_age ==
            application.household.main_borrower.age + application.project.loan_duration
        ok_age == loan_end_age <= 64
        score == Score(ok_apport, ok_revenus, ok_endettement, ok_reste, ok_age)
        criteria == <<
            Verdict("apport", ok_apport,
                    IF ok_apport THEN 0 ELSE Format0f(min_contribution)),
            Verdict("revenus", ok_revenus,
                    IF ok_revenus THEN Format0f(total_income) ELSE 0),
            Verdict("endettement", ok_endettement,
                    FormatPercent1(debt_ratio.num, debt_ratio.den)),
            Verdict("reste_vivre", ok_reste, Format0f(remaining)),
            Verdict("age", ok_age, loan_end_age) >>
        recommendations == Recommendations(ok_apport, ok_revenus, ok_endettement, ok_reste, ok_age, min_contribution, min_remaining)
        taux_info == get_taux_info
    IN  [ application_id |-> application_id,
          feasibility_score |-> score,
          status |-> StatusOf(score),
          criteria_details |-> criteria,
          recommendations |-> recommendations,
          monthly_payment |-> monthly_payment,
          total_budget |-> total_budget,
          current_interest_rate |-> current_rate,
          rate_source |-> IF "source" \in DOMAIN taux_info
                          THEN taux_info.source ELSE "seloger.com",
          rate_last_update |-> IF "date_maj" \in DOMAIN taux_info
                               THEN taux_info.date_maj ELSE -1 ]

\* Returned(ScoringResult), or Raised(error) when a step of it raises
evaluate_application(application, application_id) ==
    LET notary_fees == calculate_notary_fees(application.project.property_price,
                                             application.project.property_type)
        total_budget == application.project.property_price + notary_fees
        loan_amount == total_budget - application.project.personal_contribution
        total_income == calculate_total_eligible_income(application.household,
                                                        application.financial)
        current_rate == get_current_interest_rate(application.project.loan_duration)
        payment == calculate_monthly_payment(loan_amount,
                                             application.project.loan_duration,
                                             Some(current_rate))
    IN  IF payment.raised # "none"
        THEN Raised(payment.raised)
        ELSE Returned(ScoreApplication(application, application_id, total_budget,
                                       total_income, current_rate, payment.value))

----------------------------------------------------------------------------
(* The inputs *)

Employment(status, income, years, trial) ==
    [status |-> status, net_monthly_income |-> income,
     years_experience |-> years, trial_period |-> trial]

Borrower(employment, age) == [employment |-> employment, age |-> age]

\* every employment record over a few incomes: the direct calls
Employments ==
    { Employment(st, Euro(inc), y, t) :
        st \in {"cdi", "cdd"}, inc \in {1, 1500, 3000, 10000},
        y \in 0..MaxExperience, t \in BOOLEAN }

ConsumerLoans ==
    { [monthly_payment |-> Euro(150)], [monthly_payment |-> Euro(300)],
      [label |-> "auto"] }

LoanLists == UNION { [1..n -> ConsumerLoans] : n \in 0..MaxLoans }

Housing(status, rent, mortgage, changing) ==
    [current_status |-> status, monthly_rent |-> rent,
     current_mortgage |-> mortgage, changing_main_residence |-> changing]

Housings ==
    { Housing(st, Euro(rent), Euro(m), ch) :
        st \in {"locataire", "proprietaire", "heberge_gratuit"},
        rent \in {0, 800}, m \in {0, 600}, ch \in BOOLEAN }

Financial(loans, rental, other) ==
    [consumer_loans |-> loans, rental_income |-> rental, other_income |-> other]

\* the applications handed to evaluate_application
MainEmployments ==
    { Employment("cdi", Euro(3000), 5, FALSE),
      Employment("cdi", Euro(9000), 0, TRUE),
      Employment("cdd", Euro(3000), 3, FALSE),
      Employment("cdd", Euro(9000), 2, FALSE) }

CoBorrowers == { None, Some(Borrower(Employment("cdi", Euro(2500), 4, FALSE), 40)) }

ScoredHousings ==
    { Housing("locataire", Euro(800), 0, TRUE),
      Housing("proprietaire", 0, Euro(600), TRUE),
      Housing("proprietaire", 0, Euro(600), FALSE) }

ScoredFinancials ==
    { Financial(<<>>, 0, 0),
      Financial(<<[monthly_payment |-> Euro(300)]>>, 0, 0),
      Financial(<<>>, Euro(1000), Euro(500)) }

Projects ==
    { [property_price |-> Euro(price), property_type |-> ty,
       personal_contribution |-> Euro(c), loan_duration |-> d] :
        price \in {100000, 200000}, ty \in {"neuf", "ancien"},
        c \in {0, 10800, 21600, 108000, 250000}, d \in {7, 20} }

Households ==
    { [borrowers_count |-> n, main_borrower |-> Borrower(e, age),
       co_borrower |-> co, children |-> 2 * k] :
        n \in {1, 2}, e \in MainEmployments, age \in {44, 45},
        co \in CoBorrowers, k \in 0..MaxChildren }

Applications ==
    { [project |-> p, household |-> h, housing |-> ho, financial |-> f] :
        p \in Projects, h \in Households, ho \in ScoredHousings,
        f \in ScoredFinancials }

\* the applications evaluated while the rates are refreshed
FewApplications ==
    { [project |-> [property_price |-> Euro(200000), property_type |-> "ancien",
                    personal_contribution |-> Euro(20000), loan_duration |-> d],
       household |-> [borrowers_count |-> 1,
                      main_borrower |-> Borrower(Employment("cdi", Euro(3000), 5, FALSE), 30),
                      co_borrower |-> None, children |-> 0],
       housing |-> Housing("locataire", Euro(800), 0, TRUE),
       financial |-> Financial(<<>>, 0, 0)] :
        d \in {7, 20} }

Call(fn, args) == [fn |-> fn, args |-> args]
NoCall == Call("none", <<>>)

Calls ==
    { Call("calculate_eligible_income", <<e>>) : e \in Employments }
    \cup { Call("calculate_current_charges", <<h, Financial(l, 0, 0)>>) :
            h \in Housings, l \in LoanLists }
    \cup { Call("calculate_monthly_payment", <<Euro(a), d, r>>) :
            a \in {-97000, 0, 100000, 196000}, d \in {0, 5, 20, 30},
            r \in {None, Some(0), Some(3160000), Some(FallbackRate)} }

----------------------------------------------------------------------------
(* The state machine *)

\* an HTTP response: the endpoint and its arguments (0 for an argument the
\* endpoint does not take), the status code and the body or error detail
Response(endpoint, application_id, payment_intent_id, status_code, body) ==
    [endpoint |-> endpoint, application_id |-> application_id,
     payment_intent_id |-> payment_intent_id, status_code |-> status_code,
     body |-> body]

NoResponse == Response("none", 0, 0, 0, [detail |-> "none"])

\* applications_store = {} and nothing asked of Stripe or of the API yet
InitWeb ==
    /\ applications_store = <<>>
    /\ stripe_intents = <<>>
    /\ response = NoResponse

Jobs == {"startup", "cron", "manual"}

Idle == [pc |-> "idle", outcome |-> "none"]

Init ==
    /\ taux_storage = InitialStorage
    /\ job = [j \in Jobs |-> Idle]
    /\ now = 0
    /\ uuids = 0
    /\ request \in FewApplications
    /\ scoring = NotCalled
    /\ call = NoCall
    /\ ret = NotCalled
    /\ InitWeb

\* datetime.now() moves on
Tick ==
    /\ now < MaxClock
    /\ now' = now + 1
    /\ UNCHANGED <<taux_storage, job, uuids, request, scoring, call, ret>>
    /\ UNCHANGED web

\* update_monthly_rates is started: by startup_event, by the cron trigger of
\* the scheduler that startup_event has started, or as the background task of
\* POST /api/update-taux once the application serves requests.  It runs up to
\* `await client.get(...)`.
update_monthly_rates_begin(j) ==
    /\ job[j].pc = "idle"
    /\ \/ j = "startup"
       \/ j = "cron" /\ job["startup"].pc # "idle"
       \/ j = "manual" /\ job["startup"].pc = "done"
    /\ job' = [job EXCEPT ![j] = [pc |-> "get", outcome |-> "none"]]
    /\ UNCHANGED <<taux_storage, now, uuids, request, scoring, call, ret>>
    /\ UNCHANGED web

\* the request of line 158 ends: a response, or an exception of httpx; the
\* coroutine goes on to the exit of `async with`, which awaits the client's close
client_get_ends(j, outcome) ==
    /\ job[j].pc = "get"
    /\ job' = [job EXCEPT ![j] = [pc |-> "close", outcome |-> outcome]]
    /\ UNCHANGED <<taux_storage, now, uuids, request, scoring, call, ret>>
    /\ UNCHANGED web

\* the client is closed: scrape_seloger_rates returns its snapshot and
\* update_monthly_rates stores it (line 204)
update_monthly_rates_end(j) ==
    /\ job[j].pc = "close"
    /\ taux_storage' = scrape_seloger_rates(job[j].outcome)
    /\ job' = [job EXCEPT ![j] = [pc |-> IF j = "startup" THEN "done" ELSE "idle",
                                  outcome |-> job[j].outcome]]
    /\ UNCHANGED <<now, uuids, request, scoring, call, ret>>
    /\ UNCHANGED web

\* one call of LoanScoringService.evaluate_application: it awaits nothing, so
\* it runs from its first line to its last without another coroutine in between
CallEvaluateApplication ==
    /\ job["startup"].pc = "done"
    /\ uuids < MaxEvaluations
    /\ uuids' = uuids + 1
    /\ scoring' = evaluate_application(request, uuids + 1)
    /\ UNCHANGED <<taux_storage, job, now, request, call, ret>>
    /\ UNCHANGED web

Next ==
    \/ Tick
    \/ \E j \in Jobs : update_monthly_rates_begin(j)
    \/ \E j \in Jobs, outcome \in FetchOutcomes : client_get_ends(j, outcome)
    \/ \E j \in Jobs : update_monthly_rates_end(j)
    \/ CallEvaluateApplication

Spec == Init /\ [][Next]_vars

\* The scoring service alone: the application has started (the update of
\* startup_event has ended, with or without a response of the rate source)
\* and one application out of Applications is evaluated.
InitScoring ==
    /\ now = 0
    /\ \E outcome \in {"200", "network_error"} :
          /\ taux_storage = scrape_seloger_rates(outcome)
          /\ job = [j \in Jobs |-> IF j = "startup"
                                   THEN [pc |-> "done", outcome |-> outcome]
                                   ELSE Idle]
    /\ uuids = 0
    /\ request \in Applications
    /\ scoring = NotCalled
    /\ call = NoCall
    /\ ret = NotCalled
    /\ InitWeb

NextScoring == CallEvaluateApplication

SpecScoring == InitScoring /\ [][NextScoring]_vars

\* The static methods called directly, on the module as it is loaded.
InitCalls ==
    /\ taux_storage = InitialStorage
    /\ job = [j \in Jobs |-> Idle]
    /\ now = 0
    /\ uuids = 0
    /\ request = CHOOSE a \in FewApplications : a.project.loan_duration = 20
    /\ scoring = NotCalled
    /\ call \in Calls
    /\ ret = NotCalled
    /\ InitWeb

call_calculate_eligible_income ==
    /\ call.fn = "calculate_eligible_income"
    /\ ret = NotCalled
    /\ ret' = Returned(calculate_eligible_income(call.args[1]))
    /\ UNCHANGED <<taux_storage, job, now, uuids, request, scoring, call>>
    /\ UNCHANGED web

call_calculate_current_charges ==
    /\ call.fn = "calculate_current_charges"
    /\ ret = NotCalled
    /\ ret' = Returned(calculate_current_charges(call.args[1], call.args[2]))
    /\ UNCHANGED <<taux_storage, job, now, uuids, request, scoring, call>>
    /\ UNCHANGED web

call_calculate_monthly_payment ==
    /\ call.fn = "calculate_monthly_payment"
    /\ ret = NotCalled
    /\ ret' = calculate_monthly_payment(call.args[1], call.args[2], call.args[3])
    /\ UNCHANGED <<taux_storage, job, now, uuids, request, scoring, call>>
    /\ UNCHANGED web

NextCalls ==
    \/ call_calculate_eligible_income
    \/ call_calculate_current_charges
    \/ call_calculate_monthly_payment

SpecCalls == InitCalls /\ [][NextCalls]_vars

----------------------------------------------------------------------------
(* The endpoints of the store: evaluation, payment, dossier *)

\* raise HTTPException(status_code, detail)
HTTPException(status_code, detail) ==
    [raised |-> "HTTPException",
     value |-> [status_code |-> status_code, detail |-> detail]]

\* an exception of the stripe library
StripeError == Raised("StripeError")

\* `except Exception as e: raise HTTPException(status_code=500, ...)` around
\* the body of an endpoint: HTTPException is an Exception too
ExceptException(outcome, prefix) ==
    IF outcome.raised = "none"
    THEN outcome
    ELSE HTTPException(500, [detail |-> prefix, cause |-> outcome.raised])

\* the response FastAPI sends for what the endpoint returned or raised
Respond(endpoint, application_id, payment_intent_id, outcome) ==
    IF outcome.raised = "none"
    THEN Response(endpoint, application_id, payment_intent_id, 200, outcome.value)
    ELSE Response(endpoint, application_id, payment_intent_id,
                  outcome.value.status_code, outcome.value.detail)

\* the entry stored at lines 558-563
StoredApplication(application, scoring_result) ==
    [application |-> application, scoring |-> scoring_result,
     created_at |-> now, paid |-> FALSE]

\* what PDFService.generate_loan_dossier draws on the page
generate_loan_dossier(application, scoring_result) ==
    [rate_source |-> scoring_result.rate_source,
     current_interest_rate |-> scoring_result.current_interest_rate,
     rate_last_update |-> scoring_result.rate_last_update,
     feasibility_score |-> scoring_result.feasibility_score,
     status |-> scoring_result.status,
     property_price |-> Format0f(application.project.property_price),
     total_budget |-> Format0f(scoring_result.total_budget),
     monthly_payment |-> Format0f(scoring_result.monthly_payment),
     criteria_details |-> scoring_result.criteria_details,
     recommendations |-> scoring_result.recommendations]

\* the try block of create_payment_intent; created says whether Stripe
\* accepts the creation
CreatePaymentIntentTry(application_id, created) ==
    IF application_id \notin DOMAIN applications_store
    THEN HTTPException(404, [detail |-> "Dossier non trouve"])
    ELSE IF ~created
         THEN StripeError
         ELSE Returned([client_secret |-> Len(stripe_intents) + 1])

ConfirmPaymentAnyStatus(application_id, payment_intent_id) ==
    IF application_id \notin DOMAIN applications_store
    THEN HTTPException(404, [detail |-> "Dossier non trouve"])
    ELSE IF payment_intent_id \notin DOMAIN stripe_intents
         THEN StripeError
         ELSE Returned([status |-> "success", message |-> "Paiement confirme"])

\* the try block of confirm_payment
ConfirmPaymentTry(application_id, payment_intent_id) ==
    IF application_id \notin DOMAIN applications_store
    THEN HTTPException(404, [detail |-> "Dossier non trouve"])
    ELSE IF payment_intent_id \notin DOMAIN stripe_intents
         THEN StripeError
         ELSE IF stripe_intents[payment_intent_id].status = "succeeded"
              THEN Returned([status |-> "success", message |-> "Paiement confirme"])
              ELSE HTTPException(400, [detail |-> "Paiement non confirme"])

\* the try block of get_complete_dossier
GetCompleteDossierTry(application_id) ==
    IF application_id \notin DOMAIN applications_store
    THEN HTTPException(404, [detail |-> "Dossier non trouve"])
    ELSE IF ~applications_store[application_id].paid
         THEN HTTPException(402, [detail |-> "Paiement requis"])
         ELSE Returned([scoring |-> applications_store[application_id].scoring,
                        pdf_available |-> TRUE])

\* the try block of download_pdf
DownloadPdfTry(application_id) ==
    IF application_id \notin DOMAIN applications_store
    THEN HTTPException(404, [detail |-> "Dossier non trouve"])
    ELSE IF ~applications_store[application_id].paid
         THEN HTTPException(402, [detail |-> "Paiement requis"])
         ELSE Returned([pdf |-> generate_loan_dossier(
                                    applications_store[application_id].application,
                                    applications_store[application_id].scoring)])

\* the identifiers a client may send: those issued and one never issued
ApplicationIds == 1..(MaxEvaluations + 1)
PaymentIntentIds == 1..(MaxIntents + 1)

\* POST /api/evaluate
evaluate_loan_application ==
    /\ job["startup"].pc = "done"
    /\ uuids < MaxEvaluations
    /\ LET outcome == evaluate_application(request, uuids + 1)
       IN  /\ scoring' = outcome
           /\ IF outcome.raised = "none"
              THEN /\ uuids' = uuids + 1
                   /\ applications_store' =
                        ((uuids + 1) :> StoredApplication(request, outcome.value))
                        @@ applications_store
              ELSE UNCHANGED <<uuids, applications_store>>
           /\ response' = Respond("evaluate_loan_application", 0, 0,
                                  ExceptException(outcome, "Erreur d'evaluation"))
    /\ UNCHANGED <<taux_storage, job, now, request, call, ret, stripe_intents>>

\* POST /api/payment/create-intent
create_payment_intent(application_id, amount, created) ==
    /\ job["startup"].pc = "done"
    /\ Len(stripe_intents) < MaxIntents
    /\ LET outcome == CreatePaymentIntentTry(application_id, created)
       IN  /\ stripe_intents' =
                IF outcome.raised = "none"
                THEN Append(stripe_intents,
                            [amount |-> amount, application_id |-> application_id,
                             status |-> "requires_payment_method"])
                ELSE stripe_intents
           /\ response' = Respond("create_payment_intent", application_id, 0,
                                  ExceptException(outcome, "Erreur paiement"))
    /\ UNCHANGED <<taux_storage, job, now, uuids, request, scoring, call, ret,
                   applications_store>>

\* the customer pays, or the intent is canceled: Stripe moves the intent on
stripe_intent_moves(payment_intent_id, status) ==
    /\ payment_intent_id \in DOMAIN stripe_intents
    /\ stripe_intents[payment_intent_id].status = "requires_payment_method"
    /\ stripe_intents' = [stripe_intents EXCEPT ![payment_intent_id].status = status]
    /\ UNCHANGED <<taux_storage, job, now, uuids, request, scoring, call, ret,
                   applications_store, response>>

\* POST /api/payment/confirm
confirm_payment(application_id, payment_intent_id) ==
    /\ job["startup"].pc = "done"
    /\ LET outcome == ConfirmPaymentTry(application_id, payment_intent_id)
       IN  /\ applications_store' =
                IF outcome.raised = "none"
                THEN [applications_store EXCEPT ![application_id].paid = TRUE]
                ELSE applications_store
           /\ response' = Respond("confirm_payment", application_id, payment_intent_id,
                                  ExceptException(outcome, "Erreur confirmation"))
    /\ UNCHANGED <<taux_storage, job, now, uuids, request, scoring, call, ret,
                   stripe_intents>>

\* GET /api/dossier/{application_id}
get_complete_dossier(application_id) ==
    /\ job["startup"].pc = "done"
    /\ response' = Respond("get_complete_dossier", application_id, 0,
                           ExceptException(GetCompleteDossierTry(application_id),
                                           "Erreur recuperation"))
    /\ UNCHANGED <<taux_storage, job, now, uuids, request, scoring, call, ret,
                   applications_store, stripe_intents>>

\* GET /api/dossier/{application_id}/pdf
download_pdf(application_id) ==
    /\ job["startup"].pc = "done"
    /\ response' = Respond("download_pdf", application_id, 0,
                           ExceptException(DownloadPdfTry(application_id),
                                           "Erreur generation PDF"))
    /\ UNCHANGED <<taux_storage, job, now, uuids, request, scoring, call, ret,
                   applications_store, stripe_intents>>

\* The store behind the endpoints: the application has started and serves
\* evaluations of one application, payments and dossier requests.
InitStore ==
    /\ now = 0
    /\ taux_storage = scrape_seloger_rates("200")
    /\ job = [j \in Jobs |-> IF j = "startup"
                             THEN [pc |-> "done", outcome |-> "200"]
                             ELSE Idle]
    /\ uuids = 0
    /\ request = CHOOSE a \in FewApplications : a.project.loan_duration = 20
    /\ scoring = NotCalled
    /\ call = NoCall
    /\ ret = NotCalled
    /\ InitWeb

NextStore ==
    \/ evaluate_loan_application
    \/ \E id \in ApplicationIds, amount \in {9900, 100}, created \in BOOLEAN :
          create_payment_intent(id, amount, created)
    \/ \E pid \in PaymentIntentIds, status \in {"succeeded", "canceled"} :
          stripe_intent_moves(pid, status)
    \/ \E id \in ApplicationIds, pid \in PaymentIntentIds : confirm_payment(id, pid)
    \/ \E id \in ApplicationIds : get_complete_dossier(id)
    \/ \E id \in ApplicationIds : download_pdf(id)

SpecStore == InitStore /\ [][NextStore]_vars

----------------------------------------------------------------------------
(* The properties *)

RECURSIVE SumOver(_, _)
SumOver(f, S) ==
    IF S = {} THEN 0
    ELSE LET x == CHOOSE y \in S : TRUE
         IN  f[x] + SumOver(f, S \ {x})

\* C1: calculate_eligible_income returns the full net income for a cdi out of
\* trial period, 0 for a cdi in trial period, exactly 70% of the net income for
\* a cdd with at least 3 years of experience, and 0 for a cdd with less,
\* whatever the income.
C1_EligibleIncome ==
    (call.fn = "calculate_eligible_income" /\ ret.raised = "none") =>
        LET e == call.args[1]
        IN  /\ (e.status = "cdi" /\ ~e.trial_period)
                => ret.value = e.net_monthly_income
            /\ (e.status = "cdi" /\ e.trial_period) => ret.value = 0
            /\ (e.status = "cdd" /\ e.years_experience >= 3)
                => ret.value * 10 = e.net_monthly_income * 7
            /\ (e.status = "cdd" /\ e.years_experience < 3) => ret.value = 0

C1_Witness ==
    /\ call.fn = "calculate_eligible_income"
    /\ ret.raised = "none"
    /\ call.args[1].status = "cdi"
    /\ call.args[1].trial_period
    /\ call.args[1].net_monthly_income = Euro(10000)
    /\ ret.value = 0

\* the weights of the five criteria, by the key of criteria_details
ClaimedWeight ==
    [apport |-> 30, revenus |-> 20, endettement |-> 30, reste_vivre |-> 10, age |-> 10]

SubsetSums ==
    { SumOver(ClaimedWeight, S) : S \in SUBSET (DOMAIN ClaimedWeight) }

PassedWeight(result, keys) ==
    LET n == Len(result.criteria_details)
        w == [i \in 1..n |->
                IF result.criteria_details[i].ok
                   /\ result.criteria_details[i].name \in keys
                THEN ClaimedWeight[result.criteria_details[i].name]
                ELSE 0]
    IN  SumOver(w, 1..n)

\* C2: the feasibility_score of every result is the sum of the weights
\* (apport 30, revenus 20, endettement 30, reste_vivre 10, age 10) of exactly
\* the criteria whose verdict is a pass; it is a subset sum of the weights and
\* lies in 0..100.
C2_ScoreIsSumOfPassed ==
    scoring.raised = "none" =>
        /\ scoring.value.feasibility_score
             = PassedWeight(scoring.value, DOMAIN ClaimedWeight)
        /\ scoring.value.feasibility_score \in SubsetSums
        /\ scoring.value.feasibility_score \in 0..100

C2_Witness ==
    /\ scoring.raised = "none"
    /\ scoring.value.feasibility_score = 60
    /\ scoring.value.criteria_details[3].ok
    /\ ~scoring.value.criteria_details[5].ok

\* C3: the status of every result follows from its score: favorable from 80
\* on, moyen from 50 to 79, difficile below 50.
C3_StatusFromScore ==
    scoring.raised = "none" =>
        LET s == scoring.value.feasibility_score
        IN  /\ s >= 80 => scoring.value.status = "favorable"
            /\ (50 <= s /\ s < 80) => scoring.value.status = "moyen"
            /\ s < 50 => scoring.value.status = "difficile"

C3_Witness ==
    /\ scoring.raised = "none"
    /\ scoring.value.feasibility_score = 80
    /\ scoring.value.status = "favorable"

\* C4: the endettement criterion passes, and adds 30 to the score, exactly when
\* the total eligible income is > 0 and (monthly_payment + current_charges) /
\* total_eligible_income <= 0.33; with a total eligible income of 0 it fails
\* and the evaluation still returns.
C4_DebtRatioCriterion ==
    scoring # NotCalled =>
        /\ scoring.raised = "none"
        /\ LET r == scoring.value
               income == calculate_total_eligible_income(request.household,
                                                         request.financial)
               charges == r.monthly_payment
                          + calculate_current_charges(request.housing,
                                                      request.financial)
               passes == income > 0 /\ charges * 100 <= 33 * income
           IN  /\ r.criteria_details[3].name = "endettement"
               /\ r.criteria_details[3].ok = passes
               /\ r.feasibility_score
                    = PassedWeight(r, DOMAIN ClaimedWeight \ {"endettement"})
                      + (IF passes THEN 30 ELSE 0)

C4_Witness ==
    /\ scoring.raised = "none"
    /\ calculate_total_eligible_income(request.household, request.financial) = 0
    /\ scoring.value.monthly_payment = 0
    /\ ~scoring.value.criteria_details[3].ok

DeclaredPayment(loan) ==
    IF loan = [label |-> "auto"] THEN 0 ELSE loan.monthly_payment

\* C5: calculate_current_charges returns the sum of the declared consumer-loan
\* monthly payments, plus the current mortgage only for an owner who changes
\* the primary residence; the rent never counts.
C5_CurrentCharges ==
    (call.fn = "calculate_current_charges" /\ ret.raised = "none") =>
        LET h == call.args[1]
            loans == call.args[2].consumer_loans
            declared == SumOver([i \in DOMAIN loans |-> DeclaredPayment(loans[i])],
                                DOMAIN loans)
        IN  ret.value =
                declared
                + (IF h.current_status = "proprietaire" /\ h.changing_main_residence
                   THEN h.current_mortgage ELSE 0)

C5_Witness ==
    /\ call.fn = "calculate_current_charges"
    /\ ret.raised = "none"
    /\ call.args[1].current_status = "proprietaire"
    /\ ~call.args[1].changing_main_residence
    /\ call.args[1].current_mortgage = Euro(600)
    /\ call.args[1].monthly_rent = Euro(800)
    /\ Len(call.args[2].consumer_loans) = 2
    /\ ret.value = Euro(450)

\* the key of each duration bucket
BucketKey ==
    (10 :> "10") @@ (15 :> "15") @@ (20 :> "20") @@ (25 :> "25") @@ (30 :> "30")

\* C6: in every state the rate updates lead to, get_current_rate(duration)
\* returns the rate the current snapshot maps to the bucket for the durations
\* 10, 15, 20, 25 and 30, and 0.035 for every other duration; it raises for none.
C6_RateLookup ==
    \A d \in 0..40 :
        get_current_rate(d) =
            IF d \in DOMAIN BucketKey
            THEN IF BucketKey[d] \in DOMAIN taux_storage.taux
                 THEN taux_storage.taux[BucketKey[d]]
                 ELSE -1
            ELSE 3500000

C6_Witness ==
    /\ taux_storage.source = "fallback"
    /\ taux_storage.date_maj > 0
    /\ scoring.raised = "none"
    /\ request.project.loan_duration = 7
    /\ scoring.value.current_interest_rate = 3500000
    /\ scoring.value.rate_source = "fallback"

\* the step in which update_monthly_rates(j) ends after a failed request
FailedRefreshEnds ==
    \E j \in Jobs :
        /\ job[j].pc = "close"
        /\ job[j].outcome # "200"
        /\ job'[j].pc # "close"

\* C7 as stated: a refresh whose request fails leaves the stored snapshot
\* (rates, source and timestamp) untouched.
C7_FailedRefreshKeepsSnapshot ==
    [][FailedRefreshEnds => taux_storage' = taux_storage]_vars

\* C7 as amended: a refresh whose request fails replaces the stored snapshot by
\* the fallback snapshot: the same rate for every bucket, the source
\* "fallback" and the time of the refresh as timestamp; and every evaluation
\* still returns a result.
C7_FailedRefreshStoresFallback ==
    [][ /\ FailedRefreshEnds =>
            /\ taux_storage'.taux = taux_storage.taux
            /\ taux_storage'.source = "fallback"
            /\ taux_storage'.date_maj = now
        /\ scoring' # scoring => scoring'.raised = "none" ]_vars

C7_Witness ==
    /\ job["manual"] = [pc |-> "idle", outcome |-> "503"]
    /\ job["startup"].outcome = "200"
    /\ job["cron"].pc = "idle"
    /\ taux_storage.source = "fallback"
    /\ taux_storage.date_maj = 1
    /\ scoring.raised = "none"
    /\ scoring.value.rate_source = "fallback"

\* C8: whatever updates are in flight, the current_interest_rate, rate_source
\* and rate_last_update of a result all come from the one snapshot that is
\* stored while evaluate_application runs.
C8_OneSnapshotPerEvaluation ==
    [][ scoring' # scoring =>
            /\ scoring'.raised = "none"
            /\ taux_storage' = taux_storage
            /\ scoring'.value.current_interest_rate
                 = (IF request.project.loan_duration \in DOMAIN BucketKey
                    THEN taux_storage.taux[BucketKey[request.project.loan_duration]]
                    ELSE 3500000)
            /\ scoring'.value.rate_source = taux_storage.source
            /\ scoring'.value.rate_last_update = taux_storage.date_maj ]_vars

\* a second evaluation has read the fallback snapshot stored at time 1 while
\* the cron update is about to store its own and the manual one awaits its request
C8_Witness ==
    /\ scoring.raised = "none"
    /\ scoring.value.application_id = 2
    /\ scoring.value.rate_source = "fallback"
    /\ scoring.value.rate_last_update = 1
    /\ taux_storage.source = "fallback"
    /\ taux_storage.date_maj = 1
    /\ now = 2
    /\ job["cron"] = [pc |-> "close", outcome |-> "200"]
    /\ job["manual"].pc = "get"

\* C9 as stated: for an application funded in full or beyond
\* (personal_contribution >= total_budget) evaluate_application returns a
\* result whose monthly_payment is 0.
C9_OverFundedPaymentIsZero ==
    (scoring # NotCalled
        /\ request.project.personal_contribution
             >= request.project.property_price
                + calculate_notary_fees(request.project.property_price,
                                        request.project.property_type)) =>
        /\ scoring.raised = "none"
        /\ scoring.value.monthly_payment = 0

\* C10 as stated: calculate_monthly_payment with duration_years = 0 returns a
\* number, whatever the principal and the rate.
C10_ZeroDurationReturns ==
    (call.fn = "calculate_monthly_payment" /\ ret # NotCalled
        /\ call.args[2] = 0) =>
        ret.raised = "none"

\* the criteria in the order of the table, with the recommendation of each
CriteriaOrder == <<"apport", "revenus", "endettement", "reste_vivre", "age">>

RecommendationOf ==
    [apport |-> "Augmentez votre apport",
     revenus |-> "Obtenez un CDI ou justifiez 3 ans d'anciennete en CDD",
     endettement |-> "Reduisez vos charges ou augmentez vos revenus",
     reste_vivre |-> "Assurez-vous d'avoir un reste a vivre",
     age |-> "Reduisez la duree du pret"]

IsFailed(verdict) == ~verdict.ok

\* C11: every result holds a verdict for each of the five criteria in the
\* order apport, revenus, endettement, reste_vivre, age, and its
\* recommendations are exactly those of the failed criteria, one each, in that
\* same order.
C11_VerdictsAndRecommendationsInOrder ==
    scoring.raised = "none" =>
        LET r == scoring.value
            failed == SelectSeq(r.criteria_details, IsFailed)
        IN  /\ [i \in DOMAIN r.criteria_details |-> r.criteria_details[i].name]
                 = CriteriaOrder
            /\ Len(r.recommendations) = Len(failed)
            /\ \A i \in DOMAIN failed :
                 r.recommendations[i].text = RecommendationOf[failed[i].name]

\* apport and age fail, the three criteria between them pass
C11_Witness ==
    /\ scoring.raised = "none"
    /\ ~scoring.value.criteria_details[1].ok
    /\ scoring.value.criteria_details[2].ok
    /\ scoring.value.criteria_details[3].ok
    /\ scoring.value.criteria_details[4].ok
    /\ ~scoring.value.criteria_details[5].ok
    /\ Len(scoring.value.recommendations) = 2
    /\ scoring.value.recommendations[1].text = "Augmentez votre apport"
    /\ scoring.value.recommendations[2].text = "Reduisez la duree du pret"

\* a dossier or its PDF is in the last response
Delivered ==
    /\ response.endpoint \in {"get_complete_dossier", "download_pdf"}
    /\ response.status_code = 200

\* C12: a dossier or its PDF is delivered only for an application identifier
\* whose stored paid flag is true; every application enters the store with
\* paid = false, through an evaluation, and a paid flag becomes true only in a
\* confirm_payment for that identifier with a payment intent that has succeeded.
C12_DeliveryOnlyWhenPaid ==
    /\ [](Delivered =>
            /\ response.application_id \in DOMAIN applications_store
            /\ applications_store[response.application_id].paid)
    /\ [][ \A id \in DOMAIN applications_store' :
             /\ id \notin DOMAIN applications_store =>
                  /\ ~applications_store'[id].paid
                  /\ response'.endpoint = "evaluate_loan_application"
                  /\ response'.status_code = 200
                  /\ response'.body.application_id = id
             /\ (id \in DOMAIN applications_store
                  /\ applications_store'[id].paid
                  /\ ~applications_store[id].paid) =>
                  /\ response'.endpoint = "confirm_payment"
                  /\ response'.application_id = id
                  /\ response'.status_code = 200
                  /\ response'.payment_intent_id \in DOMAIN stripe_intents
                  /\ stripe_intents[response'.payment_intent_id].status = "succeeded"
         ]_vars

\* the PDF of the second application is delivered; the first one is not paid
C12_Witness ==
    /\ response.endpoint = "download_pdf"
    /\ response.status_code = 200
    /\ response.application_id = 2
    /\ response.body.pdf.feasibility_score
         = applications_store[2].scoring.feasibility_score
    /\ applications_store[2].paid
    /\ ~applications_store[1].paid
    /\ stripe_intents[1].status = "succeeded"

\* C13 as stated: a request for an identifier that is not in the store is
\* answered 404, a dossier or PDF request for a stored, unpaid application is
\* answered 402, and a confirm_payment with an intent that has not succeeded
\* is answered 400.
C13_ErrorStatusAsRaised ==
    /\ (response.endpoint \in {"get_complete_dossier", "download_pdf",
                               "create_payment_intent", "confirm_payment"}
        /\ response.application_id \notin DOMAIN applications_store)
          => response.status_code = 404
    /\ (response.endpoint \in {"get_complete_dossier", "download_pdf"}
        /\ response.application_id \in DOMAIN applications_store
        /\ ~applications_store[response.application_id].paid)
          => response.status_code = 402
    /\ (response.endpoint = "confirm_payment"
        /\ response.application_id \in DOMAIN applications_store
        /\ response.payment_intent_id \in DOMAIN stripe_intents
        /\ stripe_intents[response.payment_intent_id].status
             = "requires_payment_method")
          => response.status_code = 400

====
